---- MODULE Spec2Model ----
(***************************************************************************)
(* Lead-Nexus: lead approval workflow (Flask backend, routes/workflows.py, *)
(* services/lead_validation.py, services/notification_service.py), the     *)
(* upload and purchase of leads (routes/leads.py), the                     *)
(* duplicate merge coordinator and admin deletes (FastAPI backend,         *)
(* app/api/routes/leads.py, app/admin/setup.py) and the lead scoring       *)
(* service (app/services/ml_lead_scoring.py).                              *)
(*                                                                         *)
(* Conventions                                                             *)
(*  - a Python str is a sequence of one-character strings, or, where the   *)
(*    code only looks at truthiness and len(), its length;                 *)
(*  - None is a tag of its own ("none", NoneLen);                          *)
(*  - validation scores are integers in units of 1/3000 (ScoreScale), the  *)
(*    least unit in which every weight and bonus of LeadValidator is an    *)
(*    integer; lead scores (0-100) are integers in units of 1/10.          *)
(***************************************************************************)
EXTENDS Integers, Sequences, FiniteSets, TLC

VARIABLES
    \* ---- Flask backend store (models.py) ----
    leads,          \* table leads: sequence of rows, id = index
    approvals,      \* table lead_approvals
    validations,    \* table lead_validations
    notifications,  \* table notifications
    purchases,      \* table purchases
    resp,           \* the last response of a workflow request
    \* ---- FastAPI backend store (app/models/models.py) and merge request ----
    store,          \* committed table leads: set of lead UUIDs
    created,        \* every UUID that was ever inserted
    autoflush,      \* configuration of the session factory
    mpc,            \* position of the merge_duplicates request
    mreq,           \* its body: keep_lead_id, duplicate_ids
    midx,           \* loop index into duplicate_ids
    mcount,         \* deleted_count
    imap,           \* session identity map: UUIDs loaded in the session
    sdel,           \* session: marked deleted, DELETE not yet emitted
    sflushed,       \* session: DELETE emitted in the open transaction
    store0,         \* the committed table when the merge request began
    aresp,          \* the last response of a FastAPI request
    \* ---- scoring ----
    slead,          \* the lead record being scored
    sres,           \* result of the scoring call
    \* ---- LeadScoringEngine (services/lead_scoring.py) ----
    gcalls,         \* calls of _determine_quality_grade: score and grade
    edata,          \* lead_data handed to calculate_overall_score
    eres,           \* outcome of calculate_overall_score
    \* ---- predict_lead_score (services/scoring.py) ----
    pfeatures,      \* the features dict of the lead
    pcalls,         \* the scores returned by the calls so far
    \* ---- LeadValidator calls (services/lead_validation.py) ----
    vdata,          \* raw field map handed to validate_lead
    vres,           \* outcome of validate_lead
    dcall,          \* last call of a determine_* method and its result
    \* ---- find_duplicates (app/api/routes/leads.py) ----
    dleads,         \* the leads in the order the SELECT returns them
    dres,           \* the groups find_duplicates returned
    \* ---- concurrent requests on one lead (Flask backend) ----
    rlead,          \* the committed row of the lead: approval_status, status
    rapprovals,     \* committed rows of lead_approvals for the lead
    rpurchases,     \* committed rows of purchases for the lead
    rreq            \* the requests: operation, position, session, answer

wfVars == <<leads, approvals, validations, notifications, purchases, resp>>
appVars == <<store, created, autoflush, mpc, mreq, midx, mcount, imap, sdel,
             sflushed, store0, aresp>>
scVars == <<slead, sres>>
enVars == <<gcalls, edata, eres>>
prVars == <<pfeatures, pcalls>>
vaVars == <<vdata, vres, dcall>>
duVars == <<dleads, dres>>
rcVars == <<rlead, rapprovals, rpurchases, rreq>>
fnVars == <<enVars, prVars, vaVars, duVars, rcVars>>
vars == <<leads, approvals, validations, notifications, resp,
          store, created, autoflush, mpc, mreq, midx, mcount, imap, sdel,
          sflushed, store0, aresp, slead, sres, gcalls, edata, eres,
          pfeatures, pcalls, vdata, vres, dcall, dleads, dres>>

\* None, for a str-or-None that is modelled by its length
NoneLen == -1

(***************************************************************************)
(* Bounds                                                                  *)
(***************************************************************************)
MaxLeads == 2
MaxApprovals == 2
MaxUuids == 3
MaxIds == 2

(***************************************************************************)
(* LeadValidator (services/lead_validation.py)                             *)
(***************************************************************************)
ScoreScale == 3000

\* validation_rules weights, in units of 1/ScoreScale
W_email == 450
W_phone == 300
W_company_name == 300
W_contact_name == 300
W_price == 150
W_industry == 150
W_location == 150
W_description == 300

\* "not s" for a str-or-None given by its length
Falsy(s) == s = NoneLen \/ s = 0

\* an email is [cls |-> "none"] (None), [cls |-> "empty"] ('') or
\* [cls, id, form]: cls is what the pattern and the quality checks see
\* ("bad": no match), id and form what the text is (form: spelling variant)
EmailFalsy(e) == e.cls \in {"none", "empty"}

\* _validate_email: <<score, number of issues>>
ValidateEmail(e) ==
    IF EmailFalsy(e) THEN <<0, 1>>
    ELSE IF e.cls = "bad" THEN <<0, 1>>
    ELSE LET disposable == e.cls \in {"disposable", "disposable_business"}
             business == e.cls \in {"business", "disposable_business"}
             q0 == IF disposable THEN 5 ELSE 0
             quality == IF business THEN 10 ELSE IF q0 = 0 THEN 8 ELSE q0
         IN  <<(W_email * quality) \div 10, IF disposable THEN 1 ELSE 0>>

\* _validate_phone: phone is "none", "empty", "ok" (the cleaned number
\* matches the pattern) or "bad"
PhoneFalsy(p) == p \in {"none", "empty"}
ValidatePhone(p) ==
    IF PhoneFalsy(p) THEN <<0, 1>>
    ELSE IF p = "ok" THEN <<W_phone, 0>> ELSE <<0, 1>>

\* the length rule shared by company_name, contact_name, location, description
ValidateLength(s, min_length, max_length, weight) ==
    IF Falsy(s) THEN <<0, 1>>
    ELSE IF min_length <= s /\ s <= max_length THEN <<weight, 0>> ELSE <<0, 1>>

ValidateCompanyName(s) == ValidateLength(s, 2, 100, W_company_name)
ValidateContactName(s) == ValidateLength(s, 2, 50, W_contact_name)
ValidateLocation(s) == ValidateLength(s, 3, 100, W_location)
ValidateDescription(s) == ValidateLength(s, 10, 1000, W_description)

\* _validate_price: price is [k |-> "num", v |-> n], [k |-> "none"] or
\* [k |-> "str"]; min_value <= price <= max_value raises TypeError unless
\* price is a number
PriceRaises(p) == p.k # "num"
ValidatePrice(p) ==
    IF 10 <= p.v /\ p.v <= 10000 THEN <<W_price, 0>> ELSE <<0, 1>>

\* _validate_industry: industry is "none", "valid" (lower() is in the list)
\* or "other"; None.lower() raises AttributeError
IndustryRaises(i) == i = "none"
ValidateIndustry(i) ==
    IF i = "valid" THEN <<W_industry, 0>> ELSE <<0, 1>>

\* _calculate_completeness_bonus
CompletenessBonus(d) ==
    LET b(x) == IF x THEN 1 ELSE 0
        completed_required ==
            b(~EmailFalsy(d.contact_email))
          + b(~PhoneFalsy(d.contact_phone))
          + b(~Falsy(d.company_name)) + b(~Falsy(d.contact_name))
          + b(~Falsy(d.location)) + b(~Falsy(d.description))
        completed_optional == b(d.extra)
    IN  (completed_required * 600) \div 6 + completed_optional * 300

ValidateLeadRaises(d) == PriceRaises(d.price) \/ IndustryRaises(d.industry)

Min(a, b) == IF a <= b THEN a ELSE b
Max(a, b) == IF a >= b THEN a ELSE b

\* validate_lead: [score, issues] (issues: their number)
ValidateLead(d) ==
    LET parts == << ValidateEmail(d.contact_email),
                    ValidatePhone(d.contact_phone),
                    ValidateCompanyName(d.company_name),
                    ValidateContactName(d.contact_name),
                    ValidatePrice(d.price),
                    ValidateIndustry(d.industry),
                    ValidateLocation(d.location),
                    ValidateDescription(d.description) >>
        sum == parts[1][1] + parts[2][1] + parts[3][1] + parts[4][1]
             + parts[5][1] + parts[6][1] + parts[7][1] + parts[8][1]
        iss == parts[1][2] + parts[2][2] + parts[3][2] + parts[4][2]
             + parts[5][2] + parts[6][2] + parts[7][2] + parts[8][2]
    IN  [score |-> Min(sum + CompletenessBonus(d), ScoreScale), issues |-> iss]

\* determine_validation_status with > in place of >=
determine_validation_status_Strict(score, issues) ==
    IF score > 2400 /\ issues = 0 THEN "validated"
    ELSE IF score > 1800 THEN "needs_review"
    ELSE "rejected"

determine_validation_status(score, issues) ==
    IF score >= 2400 /\ issues = 0 THEN "validated"
    ELSE IF score >= 1800 THEN "needs_review"
    ELSE "rejected"

determine_approval_status(validation_status, score) ==
    IF validation_status = "validated" /\ score >= 2400 THEN "approved"
    ELSE IF validation_status = "rejected" THEN "rejected"
    ELSE "under_review"

(***************************************************************************)
(* NotificationService (services/notification_service.py)                  *)
(***************************************************************************)
\* notification_types['lead_approved']['template']
ApprovedTemplate ==
    <<"Y", "o", "u", "r", " ", "l", "e", "a", "d", " ", "\"", "{", "l",
      "e", "a", "d", "_", "t", "i", "t", "l", "e", "}", "\"", " ", "h",
      "a", "s", " ", "b", "e", "e", "n", " ", "a", "p", "p", "r", "o", "v",
      "e", "d", " ", "a", "n", "d", " ", "i", "s", " ", "n", "o", "w", " ",
      "l", "i", "v", "e", " ", "o", "n", " ", "t", "h", "e", " ", "m", "a",
      "r", "k", "e", "t", "p", "l", "a", "c", "e", ".">>

\* the literal parts of the f-string of notify_lead_rejected
RejectedHead ==
    <<"Y", "o", "u", "r", " ", "l", "e", "a", "d", " ", "\"">>
RejectedMid ==
    <<"\"", " ", "h", "a", "s", " ", "b", "e", "e", "n", " ", "r", "e",
      "j", "e", "c", "t", "e", "d", ".", " ", "R", "e", "a", "s", "o", "n",
      ":", " ">>

\* the keys of the data dicts
K_lead_title ==
    <<"l", "e", "a", "d", "_", "t", "i", "t", "l", "e">>
K_lead_id ==
    <<"l", "e", "a", "d", "_", "i", "d">>
K_reason ==
    <<"r", "e", "a", "s", "o", "n">>

Digits == {"0", "1", "2", "3", "4", "5", "6", "7", "8", "9"}

\* index of the first "}" of msg at or after i, 0 when there is none
RECURSIVE CloseIdx(_, _)
CloseIdx(msg, i) ==
    IF i > Len(msg) THEN 0
    ELSE IF msg[i] = "}" THEN i ELSE CloseIdx(msg, i + 1)

\* str.format(**data) on msg, read from position i: "ok", or the first
\* exception it raises.  "{{" and "}}" are escapes, a lone brace is a
\* ValueError, an empty or numeric field name reads the (empty) positional
\* arguments, any other name is looked up in the keys of data.
RECURSIVE FormatOutcome(_, _, _)
FormatOutcome(msg, i, keys) ==
    IF i > Len(msg) THEN "ok"
    ELSE IF msg[i] = "{" THEN
        IF i < Len(msg) /\ msg[i + 1] = "{" THEN FormatOutcome(msg, i + 2, keys)
        ELSE LET j == CloseIdx(msg, i + 1) IN
             IF j = 0 THEN "ValueError"
             ELSE LET name == SubSeq(msg, i + 1, j - 1) IN
                  IF \A k \in 1..Len(name) : name[k] \in Digits
                  THEN "IndexError"
                  ELSE IF name \in keys THEN FormatOutcome(msg, j + 1, keys)
                  ELSE "KeyError"
    ELSE IF msg[i] = "}" THEN
        IF i < Len(msg) /\ msg[i + 1] = "}" THEN FormatOutcome(msg, i + 2, keys)
        ELSE "ValueError"
    ELSE FormatOutcome(msg, i + 1, keys)

\* the mapped attributes of class Notification (models.py): its columns and
\* its relationship
NotificationAttributes ==
    {"id", "user_id", "notification_type", "title", "message", "data", "read",
     "read_at", "created_at", "user"}

\* the keyword arguments create_notification passes to Notification(...)
NotificationKwargs == {"user_id", "title", "message", "type", "data"}

\* the declarative constructor raises TypeError on a keyword that is no
\* attribute of the class
ConstructorRaises(kwargs, attributes) == \E k \in kwargs : k \notin attributes

\* create_notification: the format step catches KeyError only, and
\* Notification(...) is built before db.add and db.commit; an exception of
\* either leaves create_notification with nothing added or committed
CreateNotificationRaises(message, keys) ==
    \/ FormatOutcome(message, 1, keys) \notin {"ok", "KeyError"}
    \/ ConstructorRaises(NotificationKwargs, NotificationAttributes)

\* notify_lead_approved: the default template, data = {lead_title, lead_id}
NotifyApprovedRaises(lead) ==
    CreateNotificationRaises(ApprovedTemplate, {K_lead_title, K_lead_id})

\* notify_lead_rejected: a custom message built from title and reason
NotifyRejectedRaises(lead, reason) ==
    CreateNotificationRaises(RejectedHead \o lead.title \o RejectedMid \o reason,
                             {K_lead_title, K_lead_id, K_reason})

(***************************************************************************)
(* Flask backend: users, requests and their inputs                         *)
(***************************************************************************)
\* users.role of the two accounts of the model: 1 an admin, 2 a vendor
UserRole == <<"admin", "vendor">>
Users == DOMAIN UserRole

Titles == { <<"A">>, <<"{">> }
Reasons == { <<"b", "a", "d">>, <<"{">>, <<"{", "x", "}">>,
             <<"{", "r", "e", "a", "s", "o", "n", "}">> }
Bodies == {"json", "none"}

Email(cls, id, form) == [cls |-> cls, id |-> id, form |-> form]
Num(n) == [k |-> "num", v |-> n]

\* raw field maps handed to validate_and_save_lead
GoodLeadData ==
    [title |-> <<"A">>, contact_email |-> Email("business", 1, "canon"),
     contact_phone |-> "ok", company_name |-> 10, contact_name |-> 10,
     price |-> Num(50), industry |-> "valid", location |-> 6,
     description |-> 20, extra |-> TRUE]
SampleLeadData ==
    { GoodLeadData,
      [GoodLeadData EXCEPT !.contact_phone = "bad", !.title = <<"{">>],
      [GoodLeadData EXCEPT !.contact_email = [cls |-> "none"],
                           !.contact_phone = "empty", !.company_name = 1,
                           !.location = NoneLen, !.price = Num(5),
                           !.extra = FALSE],
      [GoodLeadData EXCEPT !.industry = "none"],
      [GoodLeadData EXCEPT !.price = [k |-> "str"]] }

\* a response: the operation, the HTTP status, the lead it is about (or the
\* number of rows created) and, for a 500, what the handler's except block
\* logged: "json" (request.json has no body) or "notify" (the notification
\* service raised)
Response(op, code, lead_id, logged) ==
    [op |-> op, code |-> code, lead_id |-> lead_id, logged |-> logged]

LeadExists(lead_id) == lead_id \in 1..Len(leads)

(***************************************************************************)
(* validate_and_save_lead (services/lead_validation.py)                    *)
(***************************************************************************)
\* the row without validation_score: the column default 0.0 stands
ValidatedLead_NoScore(d, vendor_id) ==
    LET r == ValidateLead(d)
        vs == determine_validation_status(r.score, r.issues)
    IN  [vendor_id |-> vendor_id, title |-> d.title,
         contact_email |-> d.contact_email, status |-> "available",
         validation_status |-> vs, validation_score |-> 0,
         approval_status |-> determine_approval_status(vs, r.score)]

\* the Lead row built from the field map and the validation result
ValidatedLead(d, vendor_id) ==
    LET r == ValidateLead(d)
        vs == determine_validation_status(r.score, r.issues)
    IN  [vendor_id |-> vendor_id, title |-> d.title,
         contact_email |-> d.contact_email, status |-> "available",
         validation_status |-> vs, validation_score |-> r.score,
         approval_status |-> determine_approval_status(vs, r.score)]

\* validate_and_save_lead without the LeadValidation row
ValidateAndSaveLead_NoRecord(d, vendor_id) ==
    /\ Len(leads) < MaxLeads
    /\ IF ValidateLeadRaises(d)
       THEN /\ resp' = Response("validate", 500, 0, "")
            /\ UNCHANGED leads
       ELSE /\ leads' = Append(leads, ValidatedLead(d, vendor_id))
            /\ resp' = Response("validate", 200, Len(leads) + 1, "")
    /\ UNCHANGED <<approvals, notifications, validations>>
    /\ UNCHANGED <<purchases, appVars, scVars, fnVars>>

ValidateAndSaveLead(d, vendor_id) ==
    /\ Len(leads) < MaxLeads
    /\ IF ValidateLeadRaises(d)
       THEN /\ resp' = Response("validate", 500, 0, "")
            /\ UNCHANGED <<leads, validations>>
       ELSE /\ leads' = Append(leads, ValidatedLead(d, vendor_id))
            /\ validations' = Append(validations,
                   [lead_id |-> Len(leads) + 1, validation_type |-> "automated",
                    score |-> ValidateLead(d).score])
            /\ resp' = Response("validate", 200, Len(leads) + 1, "")
    /\ UNCHANGED <<approvals, notifications>>
    /\ UNCHANGED <<purchases, appVars, scVars, fnVars>>

(***************************************************************************)
(* confirm_upload (routes/leads.py)                                        *)
(***************************************************************************)
\* contact_email.strip().lower(), applied when the value is truthy
NormalizeEmail(e) == IF EmailFalsy(e) THEN e ELSE [e EXCEPT !.form = "canon"]

\* an item of the submitted list: has_required (title, industry and price are
\* present), title, contact_email, price_ok (float(price) does not raise)
UploadItems ==
    { [has_required |-> TRUE, title |-> <<"A">>, price_ok |-> TRUE,
       contact_email |-> Email("plain", 1, "canon")],
      [has_required |-> TRUE, title |-> <<"{">>, price_ok |-> TRUE,
       contact_email |-> Email("plain", 1, "upper")],
      [has_required |-> TRUE, title |-> <<"A">>, price_ok |-> TRUE,
       contact_email |-> [cls |-> "none"]],
      [has_required |-> FALSE, title |-> <<"A">>, price_ok |-> TRUE,
       contact_email |-> Email("plain", 2, "canon")],
      [has_required |-> TRUE, title |-> <<"A">>, price_ok |-> FALSE,
       contact_email |-> Email("plain", 2, "canon")] }
UploadBatches ==
    {<<>>} \cup { <<a>> : a \in UploadItems }
           \cup { <<a, b>> : a \in UploadItems, b \in UploadItems }

\* the SELECT of the duplicate detection; the session does not autoflush
\* (models.py: SessionLocal), so it reads the committed rows only
DuplicateByEmail(vendor_id, contact_email) ==
    \E i \in 1..Len(leads) : /\ leads[i].vendor_id = vendor_id
                             /\ leads[i].contact_email = contact_email

\* the rows one item adds to the session: none when it is skipped
UploadedRows(item, vendor_id) ==
    LET contact_email == NormalizeEmail(item.contact_email) IN
    IF ~item.has_required THEN <<>>
    ELSE IF ~EmailFalsy(contact_email)
            /\ DuplicateByEmail(vendor_id, contact_email) THEN <<>>
    ELSE IF ~item.price_ok THEN <<>>
    ELSE << [vendor_id |-> vendor_id, title |-> item.title,
             contact_email |-> contact_email, status |-> "available",
             validation_status |-> "pending", validation_score |-> 0,
             approval_status |-> "pending"] >>

RECURSIVE UploadedBatch(_, _)
UploadedBatch(batch, vendor_id) ==
    IF batch = <<>> THEN <<>>
    ELSE UploadedRows(Head(batch), vendor_id)
             \o UploadedBatch(Tail(batch), vendor_id)

ConfirmUpload(batch, vendor_id) ==
    /\ Len(leads) + Len(batch) <= MaxLeads
    /\ IF batch = <<>>
       THEN /\ resp' = Response("confirm_upload", 400, 0, "")
            /\ UNCHANGED leads
       ELSE /\ leads' = leads \o UploadedBatch(batch, vendor_id)
            /\ resp' = Response("confirm_upload", 201,
                                Len(UploadedBatch(batch, vendor_id)), "")
    /\ UNCHANGED <<approvals, validations, notifications>>
    /\ UNCHANGED <<purchases, appVars, scVars, fnVars>>

(***************************************************************************)
(* approve_lead, reject_lead (routes/workflows.py)                         *)
(***************************************************************************)
\* what db.commit() of a successful request writes: the lead row, the
\* LeadApproval row and the Notification row (create_notification commits
\* on the handler's session, so all three go in one commit)
CommitTransition(lead_id, actor, approval_status, status, ntype) ==
    /\ leads' = [leads EXCEPT ![lead_id].approval_status = approval_status,
                              ![lead_id].status = status]
    /\ approvals' = Append(approvals, [lead_id |-> lead_id,
                                       approver_id |-> actor,
                                       status |-> approval_status])
    /\ notifications' = Append(notifications,
                               [user_id |-> leads[lead_id].vendor_id,
                                type |-> ntype])

\* approve_lead with db.commit() moved before the notification
ApproveLead_CommitFirst(lead_id, actor, body) ==
    /\ Len(approvals) < MaxApprovals
    /\ IF UserRole[actor] \notin {"admin", "moderator"}
       THEN /\ resp' = Response("approve", 403, lead_id, "")
            /\ UNCHANGED <<leads, approvals, notifications>>
       ELSE IF ~LeadExists(lead_id)
       THEN /\ resp' = Response("approve", 404, lead_id, "")
            /\ UNCHANGED <<leads, approvals, notifications>>
       ELSE IF body = "none"
       THEN /\ resp' = Response("approve", 500, lead_id, "json")
            /\ UNCHANGED <<leads, approvals, notifications>>
       ELSE /\ leads' = [leads EXCEPT ![lead_id].approval_status = "approved",
                                      ![lead_id].status = "available"]
            /\ approvals' = Append(approvals, [lead_id |-> lead_id,
                                               approver_id |-> actor,
                                               status |-> "approved"])
            /\ UNCHANGED notifications
            /\ resp' = Response("approve", 500, lead_id, "notify")
    /\ UNCHANGED validations
    /\ UNCHANGED <<purchases, appVars, scVars, fnVars>>

ApproveLead(lead_id, actor, body) ==
    /\ Len(approvals) < MaxApprovals
    /\ IF UserRole[actor] \notin {"admin", "moderator"}
       THEN /\ resp' = Response("approve", 403, lead_id, "")
            /\ UNCHANGED <<leads, approvals, notifications>>
       ELSE IF ~LeadExists(lead_id)
       THEN /\ resp' = Response("approve", 404, lead_id, "")
            /\ UNCHANGED <<leads, approvals, notifications>>
       ELSE IF body = "none" \/ NotifyApprovedRaises(leads[lead_id])
       THEN \* the exception handler answers 500; db.close() discards the
            \* uncommitted changes of the session
            /\ resp' = Response("approve", 500, lead_id,
                                IF body = "none" THEN "json" ELSE "notify")
            /\ UNCHANGED <<leads, approvals, notifications>>
       ELSE /\ CommitTransition(lead_id, actor, "approved", "available",
                                "success")
            /\ resp' = Response("approve", 200, lead_id, "")
    /\ UNCHANGED validations
    /\ UNCHANGED <<purchases, appVars, scVars, fnVars>>

\* reject_lead with db.commit() moved before the notification
RejectLead_CommitFirst(lead_id, actor, body, reason) ==
    /\ Len(approvals) < MaxApprovals
    /\ IF UserRole[actor] \notin {"admin", "moderator"}
       THEN /\ resp' = Response("reject", 403, lead_id, "")
            /\ UNCHANGED <<leads, approvals, notifications>>
       ELSE IF ~LeadExists(lead_id)
       THEN /\ resp' = Response("reject", 404, lead_id, "")
            /\ UNCHANGED <<leads, approvals, notifications>>
       ELSE IF body = "none"
       THEN /\ resp' = Response("reject", 500, lead_id, "json")
            /\ UNCHANGED <<leads, approvals, notifications>>
       ELSE /\ leads' = [leads EXCEPT ![lead_id].approval_status = "rejected",
                                      ![lead_id].status = "pending"]
            /\ approvals' = Append(approvals, [lead_id |-> lead_id,
                                               approver_id |-> actor,
                                               status |-> "rejected"])
            /\ UNCHANGED notifications
            /\ resp' = Response("reject", 500, lead_id, "notify")
    /\ UNCHANGED validations
    /\ UNCHANGED <<purchases, appVars, scVars, fnVars>>

RejectLead(lead_id, actor, body, reason) ==
    /\ Len(approvals) < MaxApprovals
    /\ IF UserRole[actor] \notin {"admin", "moderator"}
       THEN /\ resp' = Response("reject", 403, lead_id, "")
            /\ UNCHANGED <<leads, approvals, notifications>>
       ELSE IF ~LeadExists(lead_id)
       THEN /\ resp' = Response("reject", 404, lead_id, "")
            /\ UNCHANGED <<leads, approvals, notifications>>
       ELSE IF body = "none" \/ NotifyRejectedRaises(leads[lead_id], reason)
       THEN /\ resp' = Response("reject", 500, lead_id,
                                IF body = "none" THEN "json" ELSE "notify")
            /\ UNCHANGED <<leads, approvals, notifications>>
       ELSE /\ CommitTransition(lead_id, actor, "rejected", "pending", "error")
            /\ resp' = Response("reject", 200, lead_id, "")
    /\ UNCHANGED validations
    /\ UNCHANGED <<purchases, appVars, scVars, fnVars>>

(***************************************************************************)
(* purchase_lead (routes/leads.py)                                         *)
(***************************************************************************)
\* purchase_lead without the test of lead.status
PurchaseLead_NoStatusTest(lead_id, buyer_id) ==
    /\ IF UserRole[buyer_id] \notin {"client", "admin"}
       THEN /\ resp' = Response("purchase", 403, lead_id, "")
            /\ UNCHANGED <<leads, purchases>>
       ELSE IF lead_id = 0
       THEN /\ resp' = Response("purchase", 400, lead_id, "")
            /\ UNCHANGED <<leads, purchases>>
       ELSE IF ~LeadExists(lead_id)
       THEN /\ resp' = Response("purchase", 404, lead_id, "")
            /\ UNCHANGED <<leads, purchases>>
       ELSE /\ leads' = [leads EXCEPT ![lead_id].status = "sold"]
            /\ purchases' = Append(purchases, [buyer_id |-> buyer_id,
                                               lead_id |-> lead_id])
            /\ resp' = Response("purchase", 200, lead_id, "")
    /\ UNCHANGED <<approvals, validations, notifications>>
    /\ UNCHANGED <<appVars, scVars, fnVars>>

\* POST /api/leads/purchase; lead_id 0 stands for a body without lead_id
PurchaseLead(lead_id, buyer_id) ==
    /\ IF UserRole[buyer_id] \notin {"client", "admin"}
       THEN /\ resp' = Response("purchase", 403, lead_id, "")
            /\ UNCHANGED <<leads, purchases>>
       ELSE IF lead_id = 0
       THEN /\ resp' = Response("purchase", 400, lead_id, "")
            /\ UNCHANGED <<leads, purchases>>
       ELSE IF ~LeadExists(lead_id) \/ leads[lead_id].status # "available"
       THEN /\ resp' = Response("purchase", 404, lead_id, "")
            /\ UNCHANGED <<leads, purchases>>
       ELSE /\ leads' = [leads EXCEPT ![lead_id].status = "sold"]
            /\ purchases' = Append(purchases, [buyer_id |-> buyer_id,
                                               lead_id |-> lead_id])
            /\ resp' = Response("purchase", 200, lead_id, "")
    /\ UNCHANGED <<approvals, validations, notifications>>
    /\ UNCHANGED <<appVars, scVars, fnVars>>

(***************************************************************************)
(* Concurrent approve_lead, reject_lead and purchase_lead requests on one  *)
(* stored lead.  Every request opens its own session (SessionLocal()); the *)
(* engine is created without an isolation level, so a session reads the    *)
(* committed row when it queries and its commit writes the columns that    *)
(* differ from the values it loaded.                                       *)
(***************************************************************************)
MaxRequests == 3

Requests == 1..MaxRequests
RequestOps == {"approve", "reject", "purchase"}

\* a request that has not arrived
NoSession == [op |-> "none", pc |-> "idle", row |-> [approval_status |-> "",
              status |-> ""], overlaps |-> {}, code |-> 0]

\* the requests that hold a loaded row
Running == { q \in Requests : rreq[q].pc = "loaded" }

\* the columns of the UPDATE a flush emits: those whose value differs from
\* the loaded one
Flushed(loaded, committed, approval_status, status) ==
    [approval_status |-> IF approval_status # loaded.approval_status
                         THEN approval_status ELSE committed.approval_status,
     status |-> IF status # loaded.status THEN status ELSE committed.status]

\* the request arrives and its session loads the lead: workflows.py line 36
\* or 87, leads.py line 283; purchase_lead answers 404 unless the loaded
\* status is available
BeginRequest(r, op) ==
    /\ rreq[r].pc = "idle"
    /\ \A q \in 1..(r - 1) : rreq[q].pc # "idle"
    /\ rreq' = [rreq EXCEPT ![r] =
            IF op = "purchase" /\ rlead.status # "available"
            THEN [op |-> op, pc |-> "done", row |-> rlead,
                  overlaps |-> Running, code |-> 404]
            ELSE [op |-> op, pc |-> "loaded", row |-> rlead,
                  overlaps |-> Running, code |-> 0]]
    /\ UNCHANGED <<rlead, rapprovals, rpurchases>>
    /\ UNCHANGED <<wfVars, appVars, scVars, enVars, prVars, vaVars, duVars>>

\* the rest of approve_lead / reject_lead: the attributes are set and the
\* LeadApproval is added in the session, the notification is created, and
\* db.commit() follows; an exception answers 500 and the session is closed
\* with nothing written
FinishTransition(r) ==
    /\ rreq[r].pc = "loaded"
    /\ rreq[r].op \in {"approve", "reject"}
    /\ LET approval_status == IF rreq[r].op = "approve" THEN "approved"
                              ELSE "rejected"
           status == IF rreq[r].op = "approve" THEN "available" ELSE "pending"
       IN  IF ConstructorRaises(NotificationKwargs, NotificationAttributes)
           THEN /\ rreq' = [rreq EXCEPT ![r].pc = "done", ![r].code = 500]
                /\ UNCHANGED <<rlead, rapprovals>>
           ELSE /\ rlead' = Flushed(rreq[r].row, rlead, approval_status,
                                    status)
                /\ rapprovals' = Append(rapprovals,
                       [request |-> r, status |-> approval_status])
                /\ rreq' = [rreq EXCEPT ![r].pc = "done", ![r].code = 200]
    /\ UNCHANGED rpurchases
    /\ UNCHANGED <<wfVars, appVars, scVars, enVars, prVars, vaVars, duVars>>

\* the rest of purchase_lead, lines 287-292: the Purchase is added, status
\* becomes sold, db.commit()
FinishPurchase(r) ==
    /\ rreq[r].pc = "loaded"
    /\ rreq[r].op = "purchase"
    /\ rlead' = Flushed(rreq[r].row, rlead, rreq[r].row.approval_status,
                        "sold")
    /\ rpurchases' = Append(rpurchases, [request |-> r])
    /\ rreq' = [rreq EXCEPT ![r].pc = "done", ![r].code = 200]
    /\ UNCHANGED rapprovals
    /\ UNCHANGED <<wfVars, appVars, scVars, enVars, prVars, vaVars, duVars>>

\* the rows ingestion stores: status has the column default, approval_status
\* is the default pending or what determine_approval_status returned
ApprovalStatuses == {"pending", "approved", "rejected", "under_review"}
IngestedRows ==
    [approval_status : ApprovalStatuses, status : {"available"}]

(***************************************************************************)
(* FastAPI backend: lead ids                                               *)
(***************************************************************************)
Uuids == 1..MaxUuids

\* an id as the request carries it: a string.  uuid.UUID(s) accepts several
\* spellings of one UUID (form "canon": the str() spelling, "braced": the
\* same digits in braces) and raises ValueError on anything else ("bad")
IdStr(u, form) == [u |-> u, form |-> form]
BadId == IdStr(0, "bad")
IdStrings == { IdStr(u, "canon") : u \in Uuids } \cup {IdStr(1, "braced"), BadId}
\* the ids of a list: the str() spelling of each UUID and the unparsable id
ListIdStrings == { IdStr(u, "canon") : u \in Uuids } \cup {BadId}

UUIDRaises(s) == s.form = "bad"
UUID(s) == s.u

IdLists == UNION { [1..n -> ListIdStrings] : n \in 0..MaxIds }

AResponse(op, code, deleted_count) ==
    [op |-> op, code |-> code, deleted_count |-> deleted_count]

\* requests of this backend are taken one at a time: no other request starts
\* before a merge request is over (mpc is back to "idle")
NoMergeRunning == mpc = "idle"

(***************************************************************************)
(* process_leads_csv (app/utils/csv_loader.py): the insert of the new rows *)
(***************************************************************************)
\* the ids of n new rows: generate_uuid() never returns an id in use; the
\* model hands out the unused ids in order
FreshUuids(n) == { u \in Uuids : u > Cardinality(created)
                                 /\ u <= Cardinality(created) + n }

\* the fields of the row with id u, as the file gave them (line 185-189: the
\* email is stored lower-cased): rows 1 and 2 have one email, row 3 shares
\* no email, name or company with row 1
CsvRow(u) ==
    [email |-> IF u % 3 = 0 THEN <<"b", "@", "y">> ELSE <<"a", "@", "x">>,
     full_name |-> IF u = 1 THEN <<"N">> ELSE <<"m">>,
     company_name |-> IF u % 2 = 1 THEN <<"c">> ELSE <<"d">>]

UploadCsv(n) ==
    /\ NoMergeRunning
    /\ Cardinality(created) + n <= MaxUuids
    /\ IF n = 0
       THEN /\ aresp' = AResponse("upload_csv", 400, 0)
            /\ UNCHANGED <<store, created>>
       ELSE /\ store' = store \cup FreshUuids(n)
            /\ created' = created \cup FreshUuids(n)
            /\ aresp' = AResponse("upload_csv", 200, 0)
    /\ UNCHANGED <<autoflush, mpc, mreq, midx, mcount, imap, sdel, sflushed,
                   store0>>
    /\ UNCHANGED <<wfVars, scVars, fnVars>>

(***************************************************************************)
(* delete_lead, bulk_delete_leads (app/admin/setup.py)                     *)
(***************************************************************************)
DeleteLead(lead_id) ==
    /\ NoMergeRunning
    /\ IF UUIDRaises(lead_id)
       THEN /\ aresp' = AResponse("delete_lead", 400, 0)
            /\ UNCHANGED store
       ELSE IF UUID(lead_id) \notin store
       THEN /\ aresp' = AResponse("delete_lead", 404, 0)
            /\ UNCHANGED store
       ELSE /\ store' = store \ {UUID(lead_id)}
            /\ aresp' = AResponse("delete_lead", 200, 1)
    /\ UNCHANGED <<created, autoflush, mpc, mreq, midx, mcount, imap, sdel,
                   sflushed, store0>>
    /\ UNCHANGED <<wfVars, scVars, fnVars>>

\* valid_uuids of bulk_delete_leads
ValidUuids(lead_ids) ==
    { UUID(lead_ids[i]) : i \in { j \in 1..Len(lead_ids) :
                                     ~UUIDRaises(lead_ids[j]) } }

\* the SELECT without its WHERE clause
BulkDeleteLeads_NoWhere(lead_ids) ==
    /\ NoMergeRunning
    /\ IF lead_ids = <<>> \/ ValidUuids(lead_ids) = {}
       THEN /\ aresp' = AResponse("bulk_delete", 400, 0)
            /\ UNCHANGED store
       ELSE /\ store' = {}
            /\ aresp' = AResponse("bulk_delete", 200,
                            Cardinality(store \cap ValidUuids(lead_ids)))
    /\ UNCHANGED <<created, autoflush, mpc, mreq, midx, mcount, imap, sdel,
                   sflushed, store0>>
    /\ UNCHANGED <<wfVars, scVars, fnVars>>

BulkDeleteLeads(lead_ids) ==
    /\ NoMergeRunning
    /\ IF lead_ids = <<>> \/ ValidUuids(lead_ids) = {}
       THEN /\ aresp' = AResponse("bulk_delete", 400, 0)
            /\ UNCHANGED store
       ELSE /\ store' = store \ ValidUuids(lead_ids)
            /\ aresp' = AResponse("bulk_delete", 200,
                            Cardinality(store \cap ValidUuids(lead_ids)))
    /\ UNCHANGED <<created, autoflush, mpc, mreq, midx, mcount, imap, sdel,
                   sflushed, store0>>
    /\ UNCHANGED <<wfVars, scVars, fnVars>>

(***************************************************************************)
(* merge_duplicates (app/api/routes/leads.py)                              *)
(***************************************************************************)
NoRequest == [keep_lead_id |-> BadId, duplicate_ids |-> <<>>]

\* the request without the test "if not lead_to_keep"
MergeBegin_NoKeepLookup(keep_lead_id, duplicate_ids) ==
    /\ NoMergeRunning
    /\ mreq' = [keep_lead_id |-> keep_lead_id, duplicate_ids |-> duplicate_ids]
    /\ midx' = 1
    /\ mcount' = 0
    /\ sdel' = {}
    /\ sflushed' = {}
    /\ store0' = store
    /\ IF UUIDRaises(keep_lead_id)
       THEN /\ mpc' = "error"
            /\ imap' = {}
            /\ aresp' = AResponse("merge", 400, 0)
       ELSE /\ mpc' = "loop"
            /\ imap' = {UUID(keep_lead_id)} \cap store
            /\ aresp' = AResponse("merge", 0, 0)
    /\ UNCHANGED <<store, created, autoflush>>
    /\ UNCHANGED <<wfVars, scVars, fnVars>>

\* lines 178-186: parse the keep id and read the lead to keep
MergeBegin(keep_lead_id, duplicate_ids) ==
    /\ NoMergeRunning
    /\ mreq' = [keep_lead_id |-> keep_lead_id, duplicate_ids |-> duplicate_ids]
    /\ midx' = 1
    /\ mcount' = 0
    /\ sdel' = {}
    /\ sflushed' = {}
    /\ store0' = store
    /\ IF UUIDRaises(keep_lead_id)
       THEN /\ mpc' = "error"
            /\ imap' = {}
            /\ aresp' = AResponse("merge", 400, 0)
       ELSE IF UUID(keep_lead_id) \notin store
       THEN /\ mpc' = "error"
            /\ imap' = {}
            /\ aresp' = AResponse("merge", 404, 0)
       ELSE /\ mpc' = "loop"
            /\ imap' = {UUID(keep_lead_id)}
            /\ aresp' = AResponse("merge", 0, 0)
    /\ UNCHANGED <<store, created, autoflush>>
    /\ UNCHANGED <<wfVars, scVars, fnVars>>

\* session.get(Lead, u) answers from the identity map when it holds u (a row
\* marked deleted stays there until its DELETE is emitted); otherwise it
\* SELECTs, and an autoflushing session first emits the pending DELETEs
GetHitsMap(u) == u \in imap
FlushedBeforeGet(u) ==
    IF ~GetHitsMap(u) /\ autoflush THEN sflushed \cup sdel ELSE sflushed
PendingBeforeGet(u) == IF ~GetHitsMap(u) /\ autoflush THEN {} ELSE sdel
MapBeforeGet(u) == IF ~GetHitsMap(u) /\ autoflush THEN imap \ sdel ELSE imap
GetFinds(u) == GetHitsMap(u) \/ u \in store \ FlushedBeforeGet(u)

\* the loop with a commit after every delete
MergeLoopStep_Autocommit ==
    /\ mpc = "loop"
    /\ midx <= Len(mreq.duplicate_ids)
    /\ LET dup_id == mreq.duplicate_ids[midx]
           keep_uuid == UUID(mreq.keep_lead_id)
       IN  IF UUIDRaises(dup_id) \/ UUID(dup_id) = keep_uuid
           THEN UNCHANGED <<mcount, store>>
           ELSE LET u == UUID(dup_id) IN
                IF u \in store
                THEN /\ store' = store \ {u}
                     /\ mcount' = mcount + 1
                ELSE UNCHANGED <<mcount, store>>
    /\ midx' = midx + 1
    /\ UNCHANGED <<created, autoflush, mpc, mreq, store0, aresp, imap, sdel,
                   sflushed>>
    /\ UNCHANGED <<wfVars, scVars, fnVars>>

\* the loop without the test dup_uuid == keep_uuid
MergeLoopStep_NoKeepCheck ==
    /\ mpc = "loop"
    /\ midx <= Len(mreq.duplicate_ids)
    /\ LET dup_id == mreq.duplicate_ids[midx]
       IN  IF UUIDRaises(dup_id)
           THEN UNCHANGED <<mcount, imap, sdel, sflushed>>
           ELSE LET u == UUID(dup_id) IN
                /\ sflushed' = FlushedBeforeGet(u)
                /\ IF GetFinds(u)
                   THEN /\ imap' = MapBeforeGet(u) \cup {u}
                        /\ sdel' = PendingBeforeGet(u) \cup {u}
                        /\ mcount' = mcount + 1
                   ELSE /\ imap' = MapBeforeGet(u)
                        /\ sdel' = PendingBeforeGet(u)
                        /\ UNCHANGED mcount
    /\ midx' = midx + 1
    /\ UNCHANGED <<store, created, autoflush, mpc, mreq, store0, aresp>>
    /\ UNCHANGED <<wfVars, scVars, fnVars>>

\* lines 190-200: one iteration of the loop over duplicate_ids
MergeLoopStep ==
    /\ mpc = "loop"
    /\ midx <= Len(mreq.duplicate_ids)
    /\ LET dup_id == mreq.duplicate_ids[midx]
           keep_uuid == UUID(mreq.keep_lead_id)
       IN  IF UUIDRaises(dup_id) \/ UUID(dup_id) = keep_uuid
           THEN UNCHANGED <<mcount, imap, sdel, sflushed>>
           ELSE LET u == UUID(dup_id) IN
                /\ sflushed' = FlushedBeforeGet(u)
                /\ IF GetFinds(u)
                   THEN /\ imap' = MapBeforeGet(u) \cup {u}
                        /\ sdel' = PendingBeforeGet(u) \cup {u}
                        /\ mcount' = mcount + 1
                   ELSE /\ imap' = MapBeforeGet(u)
                        /\ sdel' = PendingBeforeGet(u)
                        /\ UNCHANGED mcount
    /\ midx' = midx + 1
    /\ UNCHANGED <<store, created, autoflush, mpc, mreq, store0, aresp>>
    /\ UNCHANGED <<wfVars, scVars, fnVars>>

MergeCommit_NoCommit ==
    /\ mpc = "loop"
    /\ midx > Len(mreq.duplicate_ids)
    /\ mpc' = "done"
    /\ imap' = {}
    /\ sdel' = {}
    /\ sflushed' = {}
    /\ aresp' = AResponse("merge", 200, mcount)
    /\ UNCHANGED <<store, created, autoflush, mreq, midx, mcount, store0>>
    /\ UNCHANGED <<wfVars, scVars, fnVars>>

\* lines 202-208: the commit and the response
MergeCommit ==
    /\ mpc = "loop"
    /\ midx > Len(mreq.duplicate_ids)
    /\ store' = store \ (sdel \cup sflushed)
    /\ mpc' = "done"
    /\ imap' = {}
    /\ sdel' = {}
    /\ sflushed' = {}
    /\ aresp' = AResponse("merge", 200, mcount)
    /\ UNCHANGED <<created, autoflush, mreq, midx, mcount, store0>>
    /\ UNCHANGED <<wfVars, scVars, fnVars>>

\* the request dies before its commit (process crash, cancelled request):
\* the session goes away and the database rolls its transaction back
MergeCrash ==
    /\ mpc = "loop"
    /\ mpc' = "crashed"
    /\ imap' = {}
    /\ sdel' = {}
    /\ sflushed' = {}
    /\ UNCHANGED <<store, created, autoflush, mreq, midx, mcount, store0, aresp>>
    /\ UNCHANGED <<wfVars, scVars, fnVars>>

\* the request is over: the response (or the crash) is behind and get_db has
\* closed the session
MergeEnd ==
    /\ mpc \in {"done", "error", "crashed"}
    /\ mpc' = "idle"
    /\ mreq' = NoRequest
    /\ midx' = 1
    /\ mcount' = 0
    /\ store0' = {}
    /\ UNCHANGED <<store, created, autoflush, imap, sdel, sflushed, aresp>>
    /\ UNCHANGED <<wfVars, scVars, fnVars>>

(***************************************************************************)
(* Strings as sequences of characters                                      *)
(***************************************************************************)
UpperChars ==
    <<"A", "B", "C", "D", "E", "F", "G", "H", "I", "J", "K", "L", "M", "N",
      "O", "P", "Q", "R", "S", "T", "U", "V", "W", "X", "Y", "Z">>
LowerChars ==
    <<"a", "b", "c", "d", "e", "f", "g", "h", "i", "j", "k", "l", "m", "n",
      "o", "p", "q", "r", "s", "t", "u", "v", "w", "x", "y", "z">>

LowerChar(c) ==
    IF \E i \in 1..26 : UpperChars[i] = c
    THEN LowerChars[CHOOSE i \in 1..26 : UpperChars[i] = c]
    ELSE c

\* str.lower()
Lower(s) == [i \in 1..Len(s) |-> LowerChar(s[i])]

\* sub in s
Contains(s, sub) ==
    \E i \in 0..(Len(s) - Len(sub)) : SubSeq(s, i + 1, i + Len(sub)) = sub

\* s.split(c)[0]
RECURSIVE BeforeFirst(_, _)
BeforeFirst(s, c) ==
    IF s = <<>> \/ Head(s) = c THEN <<>>
    ELSE <<Head(s)>> \o BeforeFirst(Tail(s), c)

\* len(s.split(c)) - 1
CountChar(s, c) == Cardinality({ i \in 1..Len(s) : s[i] = c })

(***************************************************************************)
(* Lead scoring (app/services/ml_lead_scoring.py)                          *)
(* A field of the lead is [k |-> "str", s |-> text], [k |-> "none"] or     *)
(* [k |-> "num"] (a value that is neither: a truthy number).  Scores are   *)
(* in units of 1/10.                                                       *)
(***************************************************************************)
Str(s) == [k |-> "str", s |-> s]
None == [k |-> "none"]
NonStr == [k |-> "num"]

\* truthiness of a field
Truthy(f) == f.k = "num" \/ (f.k = "str" /\ f.s # <<>>)

\* (f or "").lower() raises AttributeError on a truthy non-str
LowerRaises(f) == f.k = "num"
\* (f or "").lower()
LowerOf(f) == IF f.k = "str" THEN Lower(f.s) ELSE <<>>

\* seniority_keywords, in the insertion order the loop reads them
SeniorityKeywords ==
    << <<"c", "e", "o">>,
       <<"c", "t", "o">>,
       <<"c", "f", "o">>,
       <<"p", "r", "e", "s", "i", "d", "e", "n", "t">>,
       <<"d", "i", "r", "e", "c", "t", "o", "r">>,
       <<"v", "p">>,
       <<"v", "i", "c", "e", " ", "p", "r", "e", "s", "i", "d", "e", "n", "t">>,
       <<"h", "e", "a", "d", " ", "o", "f">>,
       <<"m", "a", "n", "a", "g", "e", "r">>,
       <<"s", "e", "n", "i", "o", "r">>,
       <<"l", "e", "a", "d">>,
       <<"p", "r", "i", "n", "c", "i", "p", "a", "l">> >>
SeniorityValues == <<3, 3, 3, 3, 2, 2, 2, 2, 1, 1, 1, 1>>

PremiumDomains ==
    << <<".", "c", "o", "m">>,
       <<".", "i", "o">>,
       <<".", "c", "o">>,
       <<".", "a", "i">>,
       <<".", "t", "e", "c", "h">> >>

MajorCities ==
    << <<"n", "e", "w", " ", "y", "o", "r", "k">>,
       <<"s", "a", "n", " ", "f", "r", "a", "n", "c", "i", "s", "c", "o">>,
       <<"l", "o", "n", "d", "o", "n">>,
       <<"b", "o", "s", "t", "o", "n">>,
       <<"s", "e", "a", "t", "t", "l", "e">>,
       <<"a", "u", "s", "t", "i", "n">>,
       <<"l", "o", "s", " ", "a", "n", "g", "e", "l", "e", "s">>,
       <<"c", "h", "i", "c", "a", "g", "o">>,
       <<"d", "e", "n", "v", "e", "r">>,
       <<"a", "t", "l", "a", "n", "t", "a">>,
       <<"t", "o", "r", "o", "n", "t", "o">>,
       <<"v", "a", "n", "c", "o", "u", "v", "e", "r">>,
       <<"s", "y", "d", "n", "e", "y">>,
       <<"m", "e", "l", "b", "o", "u", "r", "n", "e">> >>

AnyIn(list, s) == \E i \in 1..Len(list) : Contains(s, list[i])

\* Feature 1: the loop stops at the first keyword of the dict that the title
\* contains
SeniorityScore(job_title_lower) ==
    LET hits == { i \in 1..Len(SeniorityKeywords) :
                     Contains(job_title_lower, SeniorityKeywords[i]) }
    IN  IF hits = {} THEN 0
        ELSE SeniorityValues[CHOOSE i \in hits : \A j \in hits : i <= j]

\* Features 2-5, each times 10
DomainScore(domain_lower) == IF AnyIn(PremiumDomains, domain_lower) THEN 10 ELSE 5
LocationScore(location_lower) == IF AnyIn(MajorCities, location_lower) THEN 10 ELSE 5
\* email_score with the dots of the whole address counted
EmailScore_WholeAddress(email_lower) ==
    IF CountChar(email_lower, ".") = 1 THEN 10
    ELSE IF Len(email_lower) > 3 THEN 7
    ELSE 5

EmailScore(email_lower) ==
    LET email_local == IF Contains(email_lower, <<"@">>)
                       THEN BeforeFirst(email_lower, "@") ELSE <<>>
    IN  IF CountChar(email_local, ".") = 1 THEN 10
        ELSE IF Len(email_local) > 3 THEN 7
        ELSE 5
CompanyLengthScore(company_name_lower) ==
    IF Len(company_name_lower) > 15 THEN 10
    ELSE IF Len(company_name_lower) > 8 THEN 7
    ELSE 5

ExtractFeaturesRaises(lead) ==
    \/ LowerRaises(lead.job_title) \/ LowerRaises(lead.company_name)
    \/ LowerRaises(lead.location) \/ LowerRaises(lead.domain)
    \/ LowerRaises(lead.email)

\* extract_features: seniority as it is, the other four times 10
ExtractFeatures(lead) ==
    << SeniorityScore(LowerOf(lead.job_title)),
       DomainScore(LowerOf(lead.domain)),
       LocationScore(LowerOf(lead.location)),
       EmailScore(LowerOf(lead.email)),
       CompanyLengthScore(LowerOf(lead.company_name)) >>

Weights == <<25, 15, 15, 20, 10>>

UnknownTitle ==
    <<"U", "n", "k", "n", "o", "w", "n">>

CompletenessBonusOf(lead) ==
      (IF Truthy(lead.location) THEN 5 ELSE 0)
    + (IF Truthy(lead.domain) THEN 5 ELSE 0)
    + (IF Truthy(lead.job_title)
          /\ ~(lead.job_title.k = "str" /\ lead.job_title.s = UnknownTitle)
       THEN 5 ELSE 0)

Clamp_Unclamped(score) == score

\* max(0.0, min(100.0, score))
Clamp(score) == Max(0, Min(1000, score))

\* the try block of calculate_lead_score
WeightedScore(lead) ==
    LET f == ExtractFeatures(lead)
        score == f[1] * Weights[1] * 10 + f[2] * Weights[2]
               + f[3] * Weights[3] + f[4] * Weights[4] + f[5] * Weights[5]
    IN  Clamp(score + CompletenessBonusOf(lead) * 10)

SimpleSeniorKeywords ==
    << <<"c", "e", "o">>,
       <<"c", "t", "o">>,
       <<"c", "f", "o">>,
       <<"d", "i", "r", "e", "c", "t", "o", "r">>,
       <<"p", "r", "e", "s", "i", "d", "e", "n", "t">> >>
SimpleMidKeywords ==
    << <<"m", "a", "n", "a", "g", "e", "r">>,
       <<"s", "e", "n", "i", "o", "r">>,
       <<"v", "p">>,
       <<"h", "e", "a", "d">> >>

SimpleRaises(lead) == LowerRaises(lead.job_title) \/ LowerRaises(lead.domain)

\* simple_lead_score: 50.0 when its own try block raises
SimpleLeadScore(lead) ==
    IF SimpleRaises(lead) THEN 500
    ELSE LET job_title_lower == LowerOf(lead.job_title)
             title_bonus == IF AnyIn(SimpleSeniorKeywords, job_title_lower)
                            THEN 200
                            ELSE IF AnyIn(SimpleMidKeywords, job_title_lower)
                            THEN 100 ELSE 0
             domain_bonus == IF Truthy(lead.domain)
                                /\ Contains(Lower(lead.domain.s), PremiumDomains[1])
                             THEN 100 ELSE 0
             location_bonus == IF Truthy(lead.location) THEN 50 ELSE 0
         IN  Min(500 + title_bonus + domain_bonus + location_bonus, 1000)

\* calculate_lead_score: the score and the path that produced it
CalculateLeadScoreOf(lead) ==
    IF ExtractFeaturesRaises(lead)
    THEN [path |-> "fallback", score |-> SimpleLeadScore(lead)]
    ELSE [path |-> "normal", score |-> WeightedScore(lead)]

NotScored == [path |-> "none", score |-> 0]

CalculateLeadScore ==
    /\ sres = NotScored
    /\ sres' = CalculateLeadScoreOf(slead)
    /\ UNCHANGED slead
    /\ UNCHANGED <<wfVars, appVars, fnVars>>

SimpleLeadScoreCall ==
    /\ sres = NotScored
    /\ sres' = [path |-> "simple", score |-> SimpleLeadScore(slead)]
    /\ UNCHANGED slead
    /\ UNCHANGED <<wfVars, appVars, fnVars>>

(***************************************************************************)
(* LeadScoringEngine (services/lead_scoring.py).  Scores of the engine are *)
(* on its 0-1 scale, in units of 1/1000.                                   *)
(***************************************************************************)
MaxGradeCalls == 2

\* _determine_quality_grade with every threshold compared by > instead of >=
determine_quality_grade_Strict(overall_score) ==
    IF overall_score > 850 THEN "A+"
    ELSE IF overall_score > 800 THEN "A"
    ELSE IF overall_score > 750 THEN "A-"
    ELSE IF overall_score > 700 THEN "B+"
    ELSE IF overall_score > 650 THEN "B"
    ELSE IF overall_score > 600 THEN "B-"
    ELSE IF overall_score > 550 THEN "C+"
    ELSE IF overall_score > 500 THEN "C"
    ELSE "D"

\* _determine_quality_grade with the branches of A and A- exchanged
determine_quality_grade_Swapped(overall_score) ==
    IF overall_score >= 850 THEN "A+"
    ELSE IF overall_score >= 800 THEN "A-"
    ELSE IF overall_score >= 750 THEN "A"
    ELSE IF overall_score >= 700 THEN "B+"
    ELSE IF overall_score >= 650 THEN "B"
    ELSE IF overall_score >= 600 THEN "B-"
    ELSE IF overall_score >= 550 THEN "C+"
    ELSE IF overall_score >= 500 THEN "C"
    ELSE "D"

\* _determine_quality_grade
determine_quality_grade(overall_score) ==
    IF overall_score >= 850 THEN "A+"
    ELSE IF overall_score >= 800 THEN "A"
    ELSE IF overall_score >= 750 THEN "A-"
    ELSE IF overall_score >= 700 THEN "B+"
    ELSE IF overall_score >= 650 THEN "B"
    ELSE IF overall_score >= 600 THEN "B-"
    ELSE IF overall_score >= 550 THEN "C+"
    ELSE IF overall_score >= 500 THEN "C"
    ELSE "D"

\* one call of _determine_quality_grade
DetermineQualityGrade(overall_score) ==
    /\ Len(gcalls) < MaxGradeCalls
    /\ gcalls' = Append(gcalls, [score |-> overall_score,
                                 grade |-> determine_quality_grade(overall_score)])
    /\ UNCHANGED <<edata, eres>>
    /\ UNCHANGED <<wfVars, appVars, scVars, rcVars, prVars, vaVars, duVars>>

\* class ScoringFactor as written: member name (lower-cased, as the sum reads
\* it) and value
ScoringFactorDeclared ==
    << [name |-> "company_size", value |-> 250],
       [name |-> "revenue", value |-> 200],
       [name |-> "industry", value |-> 150],
       [name |-> "contact_quality", value |-> 150],
       [name |-> "location", value |-> 100],
       [name |-> "website_presence", value |-> 50],
       [name |-> "social_presence", value |-> 50],
       [name |-> "recency", value |-> 50] >>

\* iteration over an Enum yields the first member of each value; a later
\* member with a value already used is an alias of it
ScoringFactorMembers ==
    { i \in 1..Len(ScoringFactorDeclared) :
        \A j \in 1..(i - 1) :
            ScoringFactorDeclared[j].value # ScoringFactorDeclared[i].value }

\* a dict key: a str or a float
StrKey(s) == [t |-> "str", s |-> s, v |-> 0]
NumKey(v) == [t |-> "num", s |-> "", v |-> v]

\* lead_data.get('extra', {}): the key may be absent ("missing"), hold None
\* ("none"), an empty dict ("empty") or a dict with employee_count '25'
\* ("sized")
ExtraRaises(d) == d.extra = "none"

\* calculate_company_size_score
CompanySizeScore(d) == IF d.extra = "sized" THEN 700 ELSE 500

\* calculate_industry_score: None, a key of industry_scores, an unlisted name
IndustryScore(d) ==
    IF d.industry = "technology" THEN 900 ELSE 600

\* the factors dict built by lines 446-493, for a lead without revenue,
\* contact data, location, web presence and created_at
Factors(d) ==
    (StrKey("company_size") :> CompanySizeScore(d))
    @@ (StrKey("revenue") :> 500)
    @@ (StrKey("industry") :> IndustryScore(d))
    @@ (StrKey("contact_quality") :> 500)
    @@ (StrKey("location") :> 500)
    @@ (StrKey("digital_presence") :> 500)
    @@ (StrKey("recency") :> 500)

\* the members the generator of lines 496-500 keeps
SummedMembers(factors) ==
    { i \in ScoringFactorMembers :
        StrKey(ScoringFactorDeclared[i].name) \in DOMAIN factors }

\* factors[factor.value] raises KeyError when the value is no key
SumRaises(factors) ==
    \E i \in SummedMembers(factors) :
        NumKey(ScoringFactorDeclared[i].value) \notin DOMAIN factors

RECURSIVE SumOver(_, _)
SumOver(factors, members) ==
    IF members = {} THEN 0
    ELSE LET i == CHOOSE m \in members : TRUE
         IN  (factors[NumKey(ScoringFactorDeclared[i].value)]
                  * ScoringFactorDeclared[i].value) \div 1000
             + SumOver(factors, members \ {i})

NotComputed == [raised |-> "", score |-> -1, grade |-> ""]

\* calculate_overall_score: no try block, an exception reaches the caller
CalculateOverallScoreOf(d) ==
    IF ExtraRaises(d)
    THEN [raised |-> "AttributeError", score |-> -1, grade |-> ""]
    ELSE IF SumRaises(Factors(d))
    THEN [raised |-> "KeyError", score |-> -1, grade |-> ""]
    ELSE LET overall_score == SumOver(Factors(d), SummedMembers(Factors(d)))
         IN  [raised |-> "none", score |-> overall_score,
              grade |-> determine_quality_grade(overall_score)]

CalculateOverallScore ==
    /\ eres = NotComputed
    /\ eres' = CalculateOverallScoreOf(edata)
    /\ UNCHANGED <<gcalls, edata>>
    /\ UNCHANGED <<wfVars, appVars, scVars, rcVars, prVars, vaVars, duVars>>

\* inputs
GradeScores ==
    {0, 499, 500, 549, 550, 599, 600, 649, 650, 699, 700, 749, 750, 799, 800,
     849, 850, 1000}
EngineLeadData ==
    [extra : {"missing", "none", "empty", "sized"},
     industry : {"none", "technology", "unlisted"}]

(***************************************************************************)
(* predict_lead_score (services/scoring.py).  Scores are on the 0-1 scale, *)
(* in units of 1/1000.                                                     *)
(***************************************************************************)
MaxPredictCalls == 2

\* values random.uniform(-0.05, 0.05) may return
RandomDraws == {-50, 0, 50}

\* the keyword tests of lines 15-22, in the order of the if/elif chain, each
\* with what it adds to the score
IndustryKeywords ==
    << [words |-> { <<"t", "e", "c", "h", "n", "o", "l", "o", "g", "y">>,
                    <<"s", "a", "a", "s">> },
        bonus |-> 250],
       [words |-> { <<"f", "i", "n", "a", "n", "c", "e">>,
                    <<"b", "a", "n", "k", "i", "n", "g">> },
        bonus |-> 150],
       [words |-> { <<"h", "e", "a", "l", "t", "h", "c", "a", "r", "e">>,
                    <<"p", "h", "a", "r", "m", "a">> },
        bonus |-> 100],
       [words |-> { <<"e", "d", "u", "c", "a", "t", "i", "o", "n">> },
        bonus |-> -50] >>

\* the keywords of line 25
TitleKeywords ==
    { <<"e", "n", "t", "e", "r", "p", "r", "i", "s", "e">>,
      <<"c", "o", "r", "p", "o", "r", "a", "t", "e">> }

\* the industry branch of lines 15-22: the first test that succeeds decides
IndustryBonus(industry) ==
    LET hit(i) == \E w \in IndustryKeywords[i].words : Contains(industry, w)
        hits == {i \in 1..Len(IndustryKeywords) : hit(i)}
    IN  IF hits = {} THEN 0
        ELSE IndustryKeywords[CHOOSE i \in hits : \A j \in hits : i <= j].bonus

\* the keyword branch of lines 25-26
TitleBonus(title) ==
    IF \E w \in TitleKeywords : Contains(title, w) THEN 100 ELSE 0

\* predict_lead_score; r is the value random.uniform returns in this call
predict_lead_score(features, r) ==
    LET industry == LowerOf(features.industry)
        title == LowerOf(features.title)
    IN  Max(0, Min(1000, 500 + IndustryBonus(industry) + TitleBonus(title) + r))

\* one call on the lead's features
PredictLeadScore(r) ==
    /\ Len(pcalls) < MaxPredictCalls
    /\ pcalls' = Append(pcalls, predict_lead_score(pfeatures, r))
    /\ UNCHANGED pfeatures
    /\ UNCHANGED <<wfVars, appVars, scVars, rcVars, enVars, vaVars, duVars>>

\* inputs
PredictIndustries ==
    { None,
      Str(<<"T", "e", "c", "h", "n", "o", "l", "o", "g", "y">>),
      Str(<<"S", "a", "a", "S">>),
      Str(<<"F", "i", "n", "a", "n", "c", "e">>),
      Str(<<"H", "e", "a", "l", "t", "h", "c", "a", "r", "e">>),
      Str(<<"E", "d", "u", "c", "a", "t", "i", "o", "n">>),
      Str(<<"R", "e", "t", "a", "i", "l">>) }
PredictTitles ==
    { None,
      Str(<<"E", "n", "t", "e", "r", "p", "r", "i", "s", "e", " ", "C", "R", "M">>),
      Str(<<"L", "e", "a", "d", "s">>) }
PredictFeatures == [industry : PredictIndustries, title : PredictTitles]

(***************************************************************************)
(* Calls of LeadValidator (services/lead_validation.py)                    *)
(***************************************************************************)
NotValidated == [raised |-> "none", called |-> FALSE, score |-> 0, issues |-> 0]

\* the exception validate_lead leaves with: _validate_price is called before
\* _validate_industry
ValidateLeadException(d) ==
    IF PriceRaises(d.price) THEN "TypeError"
    ELSE IF IndustryRaises(d.industry) THEN "AttributeError"
    ELSE "none"

\* validator.validate_lead(lead_data)
ValidateLeadCall ==
    /\ vres = NotValidated
    /\ vres' = IF ValidateLeadRaises(vdata)
               THEN [raised |-> ValidateLeadException(vdata), called |-> TRUE,
                     score |-> 0, issues |-> 0]
               ELSE [raised |-> "none", called |-> TRUE,
                     score |-> ValidateLead(vdata).score,
                     issues |-> ValidateLead(vdata).issues]
    /\ UNCHANGED <<vdata, dcall>>
    /\ UNCHANGED <<wfVars, appVars, scVars, rcVars, enVars, prVars, duVars>>

NoCall == [fn |-> "none", score |-> 0, issues |-> 0, status |-> "", ret |-> ""]

\* validator.determine_validation_status(score, issues)
DetermineValidationStatus(score, issues) ==
    /\ dcall' = [fn |-> "determine_validation_status", score |-> score,
                 issues |-> issues, status |-> "",
                 ret |-> determine_validation_status(score, issues)]
    /\ UNCHANGED <<vdata, vres>>
    /\ UNCHANGED <<wfVars, appVars, scVars, rcVars, enVars, prVars, duVars>>

\* validator.determine_approval_status(validation_status, score)
DetermineApprovalStatus(validation_status, score) ==
    /\ dcall' = [fn |-> "determine_approval_status", score |-> score,
                 issues |-> 0, status |-> validation_status,
                 ret |-> determine_approval_status(validation_status, score)]
    /\ UNCHANGED <<vdata, vres>>
    /\ UNCHANGED <<wfVars, appVars, scVars, rcVars, enVars, prVars, duVars>>

\* inputs: raw field maps.  A price is a number (Num(0): the key is absent
\* and the default 0 stands), a str or None; an industry is None, a listed
\* name or another str ('' when the key is absent)
ValidateInputs ==
    [title : {<<"A">>},
     contact_email : {[cls |-> "none"], Email("business", 1, "canon"),
                      Email("bad", 1, "canon")},
     contact_phone : {"none", "ok"},
     company_name : {10},
     contact_name : {10},
     price : {Num(50), Num(5), Num(0), [k |-> "str"], [k |-> "none"]},
     industry : {"none", "valid", "other"},
     location : {NoneLen, 6},
     description : {20},
     extra : BOOLEAN]
StatusScores == {0, 1799, 1800, 2399, 2400, ScoreScale}
IssueCounts == 0..2
ValidationStatuses == {"pending", "validated", "rejected", "needs_review"}

(***************************************************************************)
(* find_duplicates (app/api/routes/leads.py).  A lead of the population is *)
(* [email, full_name, company_name]; it is named by its position in the    *)
(* list the SELECT returns.                                                *)
(***************************************************************************)
MaxPop == 3

\* Rule A, line 122: the same email, ignoring case
SameEmail(lead1, lead2) == Lower(lead1.email) = Lower(lead2.email)

\* Rule B, lines 125-128: the same local part and the same full name
SameLocalAndName(lead1, lead2) ==
    /\ BeforeFirst(Lower(lead1.email), "@") = BeforeFirst(Lower(lead2.email), "@")
    /\ Lower(lead1.full_name) = Lower(lead2.full_name)

\* Rule C, lines 131-134: the same full name and the same company
SameNameAndCompany(lead1, lead2) ==
    /\ Lower(lead1.full_name) = Lower(lead2.full_name)
    /\ Lower(lead1.company_name) = Lower(lead2.company_name)

\* is_duplicate of lines 119-135
IsDuplicate(lead1, lead2) ==
    \/ SameEmail(lead1, lead2)
    \/ SameLocalAndName(lead1, lead2)
    \/ SameNameAndCompany(lead1, lead2)

\* the indices of a set, in increasing order
RECURSIVE Ascending(_)
Ascending(S) ==
    IF S = {} THEN <<>>
    ELSE LET m == CHOOSE x \in S : \A y \in S : x <= y
         IN  <<m>> \o Ascending(S \ {m})

\* the inner loop without the test of line 115
GroupOf_NoProcessedTest(all_leads, i, processed) ==
    <<i>> \o Ascending({ j \in (i + 1)..Len(all_leads) :
                           IsDuplicate(all_leads[i], all_leads[j]) })

\* the inner loop, lines 113-139: lead1 and every later lead that is not
\* processed and is a duplicate of lead1
GroupOf(all_leads, i, processed) ==
    <<i>> \o Ascending({ j \in (i + 1)..Len(all_leads) :
                           /\ j \notin processed
                           /\ IsDuplicate(all_leads[i], all_leads[j]) })

\* the outer loop from lead i on, lines 109-159
RECURSIVE FindFrom(_, _, _, _)
FindFrom(all_leads, i, processed, duplicates) ==
    IF i > Len(all_leads) THEN duplicates
    ELSE IF i \in processed
    THEN FindFrom(all_leads, i + 1, processed, duplicates)
    ELSE LET group == GroupOf(all_leads, i, processed)
             seen == { group[k] : k \in 1..Len(group) }
         IN  IF Len(group) > 1
             THEN FindFrom(all_leads, i + 1, processed \cup seen,
                           Append(duplicates, group))
             ELSE FindFrom(all_leads, i + 1, processed, duplicates)

NotSearched == [called |-> FALSE, duplicates |-> <<>>]

\* GET /duplicates
FindDuplicates ==
    /\ dres = NotSearched
    /\ dres' = [called |-> TRUE,
                duplicates |-> FindFrom(dleads, 1, {}, <<>>)]
    /\ UNCHANGED dleads
    /\ UNCHANGED <<wfVars, appVars, scVars, rcVars, enVars, prVars, vaVars>>

\* inputs
DupEmails ==
    { <<"a", "@", "x">>, <<"a", "@", "y">>, <<"b", "@", "y">>,
      <<"B", "@", "y">> }
DupNames == { <<"N">>, <<"n">>, <<"m">> }
DupCompanies == { <<"c">>, <<"d">> }
DupLeads ==
    [email : DupEmails, full_name : DupNames, company_name : DupCompanies]
Populations == UNION { [1..n -> DupLeads] : n \in 0..MaxPop }

(***************************************************************************)
(* Inputs of the scoring calls                                             *)
(***************************************************************************)
JobTitles ==
    { None, Str(<<>>), NonStr,
      Str(<<"C", "E", "O">>),
      Str(<<"D", "i", "r", "e", "c", "t", "o", "r">>),
      Str(<<"U", "n", "k", "n", "o", "w", "n">>),
      Str(<<"S", "a", "l", "e", "s", " ", "M", "a", "n", "a", "g", "e", "r">>),
      Str(<<"E", "n", "g", "i", "n", "e", "e", "r">>) }
Domains ==
    { None, NonStr,
      Str(<<"a", "c", "m", "e", ".", "i", "o">>),
      Str(<<"A", "C", "M", "E", ".", "C", "O", "M">>),
      Str(<<"e", "x", "a", "m", "p", "l", "e", ".", "o", "r", "g">>) }
Locations ==
    { None, NonStr, Str(<<>>),
      Str(<<"A", "u", "s", "t", "i", "n">>),
      Str(<<"P", "a", "r", "i", "s">>) }
Emails ==
    { None,
      Str(<<"j", "o", "h", "n", ".", "d", "o", "e", "@", "a", "c", "m", "e", ".", "i", "o">>),
      Str(<<"b", "o", "b", "@", "x", ".", "o", "r", "g">>),
      Str(<<"a", "l", "e", "x", "a", "@", "x", ".", "o", "r", "g">>),
      Str(<<"a", ".", "b", ".", "c", "@", "x", ".", "o", "r", "g">>),
      Str(<<"n", "o", "m", "a", "i", "l">>) }
CompanyNames ==
    { None,
      Str(<<"A", "c", "m", "e", " ", "T", "e", "c", "h", "n", "o", "l", "o", "g", "i", "e", "s", " ", "I", "n", "t", "e", "r", "n", "a", "t", "i", "o", "n", "a", "l">>),
      Str(<<"A", "c", "m", "e", " ", "C", "o", "r", "p", ".">>),
      Str(<<"A", "c", "m", "e">>) }
ScoreLeads ==
    [job_title : JobTitles, domain : Domains, location : Locations,
     email : Emails, company_name : CompanyNames]

(***************************************************************************)
(* Specifications                                                          *)
(***************************************************************************)
WfIdle ==
    /\ leads = <<>>
    /\ approvals = <<>>
    /\ validations = <<>>
    /\ notifications = <<>>
    /\ purchases = <<>>
    /\ resp = Response("none", 0, 0, "")

AppIdle ==
    /\ store = {}
    /\ created = {}
    /\ mpc = "idle"
    /\ mreq = NoRequest
    /\ midx = 1
    /\ mcount = 0
    /\ imap = {}
    /\ sdel = {}
    /\ sflushed = {}
    /\ store0 = {}
    /\ aresp = AResponse("none", 0, 0)

ScIdle ==
    /\ slead = [job_title |-> None, domain |-> None, location |-> None,
                email |-> None, company_name |-> None]
    /\ sres = NotScored

EnIdle ==
    /\ gcalls = <<>>
    /\ edata = [extra |-> "missing", industry |-> "none"]
    /\ eres = NotComputed

PrIdle ==
    /\ pfeatures = [industry |-> None, title |-> None]
    /\ pcalls = <<>>

VaIdle ==
    /\ vdata = GoodLeadData
    /\ vres = NotValidated
    /\ dcall = NoCall

DuIdle ==
    /\ dleads = <<>>
    /\ dres = NotSearched

RcIdle ==
    /\ rlead = [approval_status |-> "pending", status |-> "available"]
    /\ rapprovals = <<>>
    /\ rpurchases = <<>>
    /\ rreq = [r \in Requests |-> NoSession]

FnIdle == EnIdle /\ PrIdle /\ VaIdle /\ DuIdle /\ RcIdle

\* the approval workflow of the Flask backend, from empty tables
Init == WfIdle /\ AppIdle /\ autoflush = TRUE /\ ScIdle /\ FnIdle

Next ==
    \/ \E d \in SampleLeadData : ValidateAndSaveLead(d, 2)
    \/ \E batch \in UploadBatches : ConfirmUpload(batch, 2)
    \/ \E lead_id \in 1..MaxLeads, actor \in Users, body \in Bodies :
           ApproveLead(lead_id, actor, body)
    \/ \E lead_id \in 1..MaxLeads, actor \in Users, body \in Bodies,
          reason \in Reasons : RejectLead(lead_id, actor, body, reason)

Spec == Init /\ [][Next]_vars

\* the marketplace of the Flask backend: ingestion, the approval workflow
\* and purchases, from empty tables
MarketInit == WfIdle /\ AppIdle /\ autoflush = TRUE /\ ScIdle /\ FnIdle

MarketNext ==
    \/ \E d \in SampleLeadData : ValidateAndSaveLead(d, 2)
    \/ \E batch \in UploadBatches : ConfirmUpload(batch, 2)
    \/ \E lead_id \in 1..MaxLeads, actor \in Users, body \in Bodies :
           ApproveLead(lead_id, actor, body)
    \/ \E lead_id \in 1..MaxLeads, actor \in Users, body \in Bodies,
          reason \in Reasons : RejectLead(lead_id, actor, body, reason)
    \/ \E lead_id \in 0..MaxLeads, buyer_id \in Users :
           PurchaseLead(lead_id, buyer_id)

MarketSpec == MarketInit /\ [][MarketNext]_vars

\* the lead table of the FastAPI backend, from an empty table
MergeInit == WfIdle /\ AppIdle /\ autoflush \in BOOLEAN /\ ScIdle /\ FnIdle

MergeNext ==
    \/ \E n \in 0..2 : UploadCsv(n)
    \/ \E lead_id \in IdStrings : DeleteLead(lead_id)
    \/ \E lead_ids \in IdLists : BulkDeleteLeads(lead_ids)
    \/ \E keep_lead_id \in IdStrings, duplicate_ids \in IdLists :
           MergeBegin(keep_lead_id, duplicate_ids)
    \/ MergeLoopStep
    \/ MergeCommit
    \/ MergeCrash
    \/ MergeEnd

MergeSpec == MergeInit /\ [][MergeNext]_vars

\* the scoring calls, on every lead of ScoreLeads
ScoreInit == WfIdle /\ AppIdle /\ autoflush = TRUE /\ FnIdle
             /\ slead \in ScoreLeads /\ sres = NotScored

ScoreNext == CalculateLeadScore \/ SimpleLeadScoreCall

ScoreSpec == ScoreInit /\ [][ScoreNext]_vars

\* the calls of LeadScoringEngine
EngineInit == WfIdle /\ AppIdle /\ autoflush = TRUE /\ ScIdle /\ RcIdle
              /\ PrIdle /\ VaIdle /\ DuIdle
              /\ gcalls = <<>> /\ edata \in EngineLeadData /\ eres = NotComputed

EngineNext ==
    \/ \E overall_score \in GradeScores : DetermineQualityGrade(overall_score)
    \/ CalculateOverallScore

EngineSpec == EngineInit /\ [][EngineNext]_vars

\* the calls of predict_lead_score on one lead
PredictInit == WfIdle /\ AppIdle /\ autoflush = TRUE /\ ScIdle /\ RcIdle
               /\ EnIdle /\ VaIdle /\ DuIdle
               /\ pfeatures \in PredictFeatures /\ pcalls = <<>>

PredictNext == \E r \in RandomDraws : PredictLeadScore(r)

PredictSpec == PredictInit /\ [][PredictNext]_vars

\* the calls of LeadValidator
ValidatorInit == WfIdle /\ AppIdle /\ autoflush = TRUE /\ ScIdle /\ RcIdle
                 /\ EnIdle /\ PrIdle /\ DuIdle
                 /\ vdata \in ValidateInputs /\ vres = NotValidated
                 /\ dcall = NoCall

ValidatorNext ==
    \/ ValidateLeadCall
    \/ \E score \in StatusScores, issues \in IssueCounts :
           DetermineValidationStatus(score, issues)
    \/ \E validation_status \in ValidationStatuses, score \in StatusScores :
           DetermineApprovalStatus(validation_status, score)

ValidatorSpec == ValidatorInit /\ [][ValidatorNext]_vars

\* find_duplicates on every population of at most MaxPop leads
DupInit == WfIdle /\ AppIdle /\ autoflush = TRUE /\ ScIdle /\ RcIdle
           /\ EnIdle /\ PrIdle /\ VaIdle
           /\ dleads \in Populations /\ dres = NotSearched

DupNext == FindDuplicates

DupSpec == DupInit /\ [][DupNext]_vars

\* concurrent requests on one ingested lead
RaceInit == WfIdle /\ AppIdle /\ autoflush = TRUE /\ ScIdle
            /\ EnIdle /\ PrIdle /\ VaIdle /\ DuIdle
            /\ rlead \in IngestedRows /\ rapprovals = <<>>
            /\ rpurchases = <<>> /\ rreq = [r \in Requests |-> NoSession]

RaceNext ==
    \/ \E r \in Requests, op \in RequestOps : BeginRequest(r, op)
    \/ \E r \in Requests : FinishTransition(r)
    \/ \E r \in Requests : FinishPurchase(r)

RaceSpec == RaceInit /\ [][RaceNext]_vars

TypeOK ==
    /\ Len(leads) <= MaxLeads
    /\ Len(approvals) <= MaxApprovals
    /\ store \subseteq created
    /\ created \subseteq Uuids

AllowedTransitions ==
    { <<"pending", "under_review">>, <<"pending", "approved">>,
      <<"pending", "rejected">>, <<"under_review", "approved">>,
      <<"under_review", "rejected">> }

C4_NotifyFailureKeepsTransition ==
    [][(resp'.logged = "notify" /\ resp' # resp)
          => LET id == resp'.lead_id
                 st == IF resp'.op = "approve" THEN "approved" ELSE "rejected"
             IN  /\ leads'[id].approval_status = st
                 /\ Len(approvals') = Len(approvals) + 1
                 /\ approvals'[Len(approvals')].lead_id = id
                 /\ approvals'[Len(approvals')].status = st]_vars

(***************************************************************************)
(* Properties of merge_duplicates and the admin deletes (MergeSpec)        *)
(***************************************************************************)
KeepUuid == UUID(mreq.keep_lead_id)
KeepExisted == ~UUIDRaises(mreq.keep_lead_id) /\ KeepUuid \in store0
DupIds == mreq.duplicate_ids

\* the listed id names a lead that existed when the request began and is not
\* the lead to keep
NamesOtherLead(s) == ~UUIDRaises(s) /\ UUID(s) \in store0 /\ UUID(s) # KeepUuid

\* C5: for an existing keep lead and two distinct existing leads dup1, dup2
\* other than keep, merge_duplicates(keep, [dup1, dup2]) returns
\* deleted_count = 2; afterwards keep exists and dup1, dup2 do not.
C5_MergeTwoDuplicates ==
    (/\ mpc = "done"
     /\ Len(DupIds) = 2
     /\ NamesOtherLead(DupIds[1]) /\ NamesOtherLead(DupIds[2])
     /\ UUID(DupIds[1]) # UUID(DupIds[2]))
        => /\ aresp.code = 200
           /\ aresp.deleted_count = 2
           /\ KeepUuid \in store
           /\ UUID(DupIds[1]) \notin store
           /\ UUID(DupIds[2]) \notin store

C5_Witness ==
    /\ mpc = "done"
    /\ Len(DupIds) = 2
    /\ NamesOtherLead(DupIds[1]) /\ NamesOtherLead(DupIds[2])
    /\ UUID(DupIds[1]) # UUID(DupIds[2])
    /\ aresp.deleted_count = 2
    /\ store = store0 \ {UUID(DupIds[1]), UUID(DupIds[2])}

\* the list holds nothing but unparsable ids, ids of no lead and the keep id
OnlySkippedIds ==
    \A i \in 1..Len(DupIds) : ~NamesOtherLead(DupIds[i])

\* C6: with an existing keep lead and a list made only of unparsable ids, ids
\* of non-existent leads and the keep id, merge_duplicates answers
\* deleted_count = 0 without an error and deletes nothing; and whatever the
\* list, the keep lead is not deleted by its own merge.
C6_SkippedIdsDeleteNothing ==
    /\ (mpc \in {"done", "error"} /\ KeepExisted /\ OnlySkippedIds)
          => /\ mpc = "done"
             /\ aresp.code = 200
             /\ aresp.deleted_count = 0
             /\ store = store0
    /\ (mpc \in {"loop", "done"}) => KeepUuid \in store \ (sdel \cup sflushed)

C6_Witness ==
    /\ mpc = "done"
    /\ Len(DupIds) = 2
    /\ \E i, j \in 1..2 : /\ UUIDRaises(DupIds[i])
                          /\ ~UUIDRaises(DupIds[j])
                          /\ UUID(DupIds[j]) = KeepUuid
    /\ aresp.deleted_count = 0
    /\ store = store0
    /\ Cardinality(store) >= 2

\* C7: a merge whose keep id is malformed or names no existing lead answers
\* with an error (400 invalid id, 404 not found) and deletes no lead, also
\* when the list names existing leads.
C7_BadKeepIsAnError ==
    (mpc # "idle" /\ ~KeepExisted)
        => /\ mpc = "error"
           /\ aresp.op = "merge"
           /\ aresp.code = (IF UUIDRaises(mreq.keep_lead_id) THEN 400 ELSE 404)
           /\ store = store0

C7_Witness ==
    /\ mpc = "error"
    /\ aresp.code = 404
    /\ \E i \in 1..Len(DupIds) : ~UUIDRaises(DupIds[i]) /\ UUID(DupIds[i]) \in store
    /\ store = store0

\* C8: the delete loop is one transaction: while the request has not
\* committed, and when it is interrupted before its commit, no listed
\* duplicate is deleted in the committed table.
C8_NoDeleteBeforeCommit ==
    (mpc \in {"loop", "crashed"}) => store = store0

C8_Witness ==
    /\ mpc = "crashed"
    /\ mcount >= 1
    /\ midx <= Len(DupIds)
    /\ store = store0

\* the step is the commit of a merge and u one of its listed duplicates
MergeRemoves(u) ==
    /\ mpc = "loop" /\ mpc' = "done"
    /\ u # KeepUuid
    /\ \E i \in 1..Len(DupIds) : ~UUIDRaises(DupIds[i]) /\ UUID(DupIds[i]) = u

\* C9 as stated: a lead is hard-deleted by no operation other than
\* merge_duplicates removing it as a duplicate.
C9_OnlyMergeDeletes ==
    [][\A u \in store \ store' : MergeRemoves(u)]_vars

\* C9, amended: a lead leaves the table only when a merge removes it as a
\* listed duplicate or when the admin operations delete_lead or
\* bulk_delete_leads delete it; and only existing leads leave.
C9_OnlyMergeOrAdminDeletes ==
    [][\A u \in store \ store' :
          \/ MergeRemoves(u)
          \/ aresp'.op = "delete_lead" /\ aresp'.code = 200
                 /\ store' = store \ {u}
          \/ aresp'.op = "bulk_delete" /\ aresp'.code = 200
                 /\ aresp'.deleted_count = Cardinality(store \ store')]_vars

C9_Witness ==
    /\ aresp.op = "delete_lead"
    /\ aresp.code = 200
    /\ store # created
    /\ store # {}

(***************************************************************************)
(* Properties of the scoring calls (ScoreSpec)                             *)
(***************************************************************************)
\* C10: for every lead record calculate_lead_score returns a value within
\* [0, 100], on the normal path and on the fallback path alike.
C10_ScoreWithinRange ==
    sres.path # "none" => (0 <= sres.score /\ sres.score <= 1000)

C10_Witness ==
    /\ sres.path = "normal"
    /\ slead.location = None
    /\ slead.domain = None
    /\ SeniorityScore(LowerOf(slead.job_title)) = 3
    /\ sres.score = 1000

(***************************************************************************)
(* Properties of the scoring example (ScoreSpec)                           *)
(***************************************************************************)
AcmeLead ==
    [job_title |-> Str(<<"C", "E", "O">>),
     domain |-> Str(<<"a", "c", "m", "e", ".", "i", "o">>),
     location |-> Str(<<"A", "u", "s", "t", "i", "n">>),
     email |-> Str(<<"j", "o", "h", "n", ".", "d", "o", "e", "@", "a", "c",
                     "m", "e", ".", "i", "o">>),
     company_name |-> Str(<<"A", "c", "m", "e", " ", "T", "e", "c", "h", "n",
                            "o", "l", "o", "g", "i", "e", "s", " ", "I", "n",
                            "t", "e", "r", "n", "a", "t", "i", "o", "n", "a",
                            "l">>)]

\* C11: for the lead CEO / acme.io / Austin / john.doe@acme.io / Acme
\* Technologies International the features are [3, 1.0, 1.0, 1.0, 1.0], the
\* score of calculate_lead_score is 100.0 and its grade is A+.
C11_AcmeExample ==
    (slead = AcmeLead /\ sres.path \notin {"none", "simple"})
        => /\ sres.path = "normal"
           /\ ExtractFeatures(slead) = <<3, 10, 10, 10, 10>>
           /\ sres.score = 1000
           /\ determine_quality_grade(sres.score) = "A+"

C11_Witness ==
    /\ slead = AcmeLead
    /\ sres = [path |-> "normal", score |-> 1000]

(***************************************************************************)
(* Properties of LeadScoringEngine (EngineSpec)                            *)
(***************************************************************************)
\* the grades, from the lowest to the highest
GradeOrder == <<"D", "C", "C+", "B-", "B", "B+", "A-", "A", "A+">>
GradeRank(grade) == CHOOSE i \in 1..Len(GradeOrder) : GradeOrder[i] = grade

\* the threshold table, on the 0-1 scale in units of 1/1000
GradeTable == << <<850, "A+">>, <<800, "A">>, <<750, "A-">>, <<700, "B+">>,
                 <<650, "B">>, <<600, "B-">>, <<550, "C+">>, <<500, "C">> >>
TableGrade(score) ==
    LET hits == { i \in 1..Len(GradeTable) : score >= GradeTable[i][1] }
    IN  IF hits = {} THEN "D"
        ELSE GradeTable[CHOOSE i \in hits : \A j \in hits : i <= j][2]

\* C12: the grade is the threshold function of the score (>= 0.85 A+, ...,
\* >= 0.50 C, otherwise D), and of two scores the higher one never gets the
\* lower grade.
C12_GradeIsThresholdFunction ==
    /\ \A i \in 1..Len(gcalls) : gcalls[i].grade = TableGrade(gcalls[i].score)
    /\ \A i, j \in 1..Len(gcalls) :
           gcalls[i].score >= gcalls[j].score
               => GradeRank(gcalls[i].grade) >= GradeRank(gcalls[j].grade)

C12_Witness ==
    /\ Len(gcalls) = 2
    /\ gcalls[1].score = 599 /\ gcalls[1].grade = "C+"
    /\ gcalls[2].score = 600 /\ gcalls[2].grade = "B-"

\* C13 as stated: a score of 84.9 is graded A- and a score of 85.0 A+.
C13_TopBoundary ==
    \A i \in 1..Len(gcalls) :
        /\ gcalls[i].score = 849 => gcalls[i].grade = "A-"
        /\ gcalls[i].score = 850 => gcalls[i].grade = "A+"

\* C13, amended: a score of 84.9 is graded A (the grade of 80 to below 85)
\* and a score of 85.0 is graded A+.
C13_TopBoundaryAmended ==
    \A i \in 1..Len(gcalls) :
        /\ gcalls[i].score = 849 => gcalls[i].grade = "A"
        /\ gcalls[i].score = 850 => gcalls[i].grade = "A+"

C13_Witness ==
    /\ Len(gcalls) = 2
    /\ gcalls[1] = [score |-> 849, grade |-> "A"]
    /\ gcalls[2] = [score |-> 850, grade |-> "A+"]

\* C14: a scoring call always returns a score and never raises to its
\* caller; here for calculate_overall_score.
C14_ScoringNeverRaises ==
    eres # NotComputed => (eres.raised = "none" /\ eres.score >= 0)

(***************************************************************************)
(* Properties of predict_lead_score (PredictSpec)                          *)
(***************************************************************************)
\* C15: two calls of a scoring entry point on an unchanged lead return the
\* identical score; here for predict_lead_score.
C15_RepeatedCallsAgree ==
    \A i, j \in 1..Len(pcalls) : pcalls[i] = pcalls[j]

(***************************************************************************)
(* Properties of LeadValidator (ValidatorSpec)                             *)
(***************************************************************************)
\* C16: for every field map whose fields are strings or null validate_lead
\* returns a score within [0, 1]; a null or str industry or price does not
\* make it fail.
C16_ValidateLeadInRange ==
    vres.called => /\ vres.raised = "none"
                   /\ 0 <= vres.score /\ vres.score <= ScoreScale

\* C17: the validation status is validated iff score >= 0.8 with no issue,
\* otherwise needs_review iff score >= 0.6, otherwise rejected; the approval
\* status is approved iff the status is validated and score >= 0.8, rejected
\* iff the status is rejected, under_review in every other case.
C17_StatusDerivation ==
    /\ dcall.fn = "determine_validation_status"
          => /\ dcall.ret \in {"validated", "needs_review", "rejected"}
             /\ dcall.ret = "validated"
                    <=> (dcall.score * 10 >= 8 * ScoreScale /\ dcall.issues = 0)
             /\ dcall.ret = "needs_review"
                    <=> /\ ~(dcall.score * 10 >= 8 * ScoreScale /\ dcall.issues = 0)
                        /\ dcall.score * 10 >= 6 * ScoreScale
    /\ dcall.fn = "determine_approval_status"
          => /\ dcall.ret \in {"approved", "rejected", "under_review"}
             /\ dcall.ret = "approved"
                    <=> (dcall.status = "validated"
                         /\ dcall.score * 10 >= 8 * ScoreScale)
             /\ dcall.ret = "rejected" <=> dcall.status = "rejected"

C17_Witness ==
    /\ dcall.fn = "determine_validation_status"
    /\ dcall.score = 2400 /\ dcall.issues = 1
    /\ dcall.ret = "needs_review"

Members(group) == { group[k] : k \in 1..Len(group) }
Groups == { dres.duplicates[g] : g \in 1..Len(dres.duplicates) }

\* C19: two leads of the population whose emails are equal ignoring case
\* are both in one returned group.
C19_SameEmailSameGroup ==
    dres.called =>
        \A i, j \in 1..Len(dleads) :
            (i # j /\ SameEmail(dleads[i], dleads[j]))
                => \E group \in Groups : {i, j} \subseteq Members(group)

\* C20: for leads A, B, C scanned in that order where A and B match, B and
\* C match and A and C do not, C is in A's group.
C20_TransitiveMembership ==
    dres.called =>
        \A a, b, c \in 1..Len(dleads) :
            (/\ a < b /\ b < c
             /\ IsDuplicate(dleads[a], dleads[b])
             /\ IsDuplicate(dleads[b], dleads[c])
             /\ ~IsDuplicate(dleads[a], dleads[c]))
                => \E group \in Groups : {a, c} \subseteq Members(group)

\* C21: in every returned group each member after the first matches the
\* first (the primary) by Rule A, B or C, the group has at least two
\* members, and no lead is in two groups or twice in one.
C21_GroupsMatchPrimary ==
    dres.called =>
        /\ \A group \in Groups :
              /\ Len(group) >= 2
              /\ \A k \in 2..Len(group) :
                    IsDuplicate(dleads[group[1]], dleads[group[k]])
              /\ \A k, l \in 1..Len(group) : group[k] = group[l] => k = l
        /\ \A g, h \in 1..Len(dres.duplicates) :
              g # h => Members(dres.duplicates[g])
                         \cap Members(dres.duplicates[h]) = {}

\* a lead that matches two primaries which do not match each other: it is
\* in the group of the first one only
C21_Witness ==
    /\ dres.called
    /\ Len(dleads) = 3
    /\ dres.duplicates = << <<1, 3>> >>
    /\ IsDuplicate(dleads[2], dleads[3])
    /\ ~IsDuplicate(dleads[1], dleads[2])

(***************************************************************************)
(* Properties of the marketplace (MarketSpec)                              *)
(***************************************************************************)
\* C22: in every reachable state a lead with status available has
\* approval_status approved, and every purchased lead is an approved one.
C22_AvailableImpliesApproved ==
    /\ \A i \in 1..Len(leads) :
          leads[i].status = "available"
              => leads[i].approval_status = "approved"
    /\ \A k \in 1..Len(purchases) :
          leads[purchases[k].lead_id].approval_status = "approved"

\* C23: when approve or reject answers with an error (403, 404 or 500),
\* nothing of the request is committed: the leads are as before and no
\* LeadApproval or Notification row is added.
C23_ErrorCommitsNothing ==
    [][(resp'.op \in {"approve", "reject"} /\ resp'.code \in {403, 404, 500})
          => /\ leads' = leads
             /\ approvals' = approvals
             /\ notifications' = notifications]_vars

\* reject_lead has run as a moderating user on a stored lead up to the
\* notification, which raised: the lead is not rejected and has no
\* LeadApproval row
C23_Witness ==
    /\ resp.op = "reject" /\ resp.code = 500 /\ resp.logged = "notify"
    /\ LeadExists(resp.lead_id)
    /\ leads[resp.lead_id].approval_status = "pending"
    /\ leads[resp.lead_id].status = "available"
    /\ approvals = <<>> /\ notifications = <<>>

Concurrent(a, b) == a \in rreq[b].overlaps \/ b \in rreq[a].overlaps

\* C25: when an approve and a reject of the lead have run concurrently (and
\* no purchase is made), the committed lead has the pair of one of them,
\* (approved, available) or (rejected, pending), and the LeadApproval rows
\* of both are present.
C25_ConcurrentLastWriterWins ==
    \A a, b \in Requests :
        (/\ rreq[a].op = "approve" /\ rreq[a].pc = "done"
         /\ rreq[b].op = "reject" /\ rreq[b].pc = "done"
         /\ Concurrent(a, b)
         /\ \A q \in Requests : rreq[q].op # "purchase")
            => /\ <<rlead.approval_status, rlead.status>>
                     \in { <<"approved", "available">>,
                           <<"rejected", "pending">> }
               /\ \E k \in 1..Len(rapprovals) : rapprovals[k].request = a
               /\ \E k \in 1..Len(rapprovals) : rapprovals[k].request = b

\* C26: at most one Purchase is ever recorded for the lead, under every
\* interleaving of purchase_lead, approve_lead and reject_lead requests.
C26_AtMostOnePurchase ==
    Len(rpurchases) <= 1

(***************************************************************************)
(* Further properties of merge_duplicates (MergeSpec)                      *)
(***************************************************************************)
\* C27: for every duplicate-id list the deleted_count merge_duplicates
\* returns is the number of leads that existed before the call and exist
\* no longer after it.
C27_DeletedCountIsExact ==
    (mpc = "done" /\ aresp.op = "merge" /\ aresp.code = 200)
        => aresp.deleted_count = Cardinality(store0 \ store)

\* C28: merge_duplicates deletes a lead only if it matches the keep lead by
\* Rule A, B or C, and the keep lead is left as it was.
C28_MergeDeletesOnlyDuplicates ==
    (mpc = "done" /\ aresp.op = "merge" /\ aresp.code = 200)
        => /\ \A u \in store0 \ store :
                 IsDuplicate(CsvRow(KeepUuid), CsvRow(u))
           /\ KeepUuid \in store

(***************************************************************************)
(* Properties of confirm_upload (MarketSpec)                               *)
(***************************************************************************)
\* C29: after any sequence of confirm_upload calls (no lead came in by
\* another way) no vendor owns two leads with the same non-empty
\* contact_email, compared after trimming and lower-casing.
C29_NoDuplicateVendorEmail ==
    validations = <<>> =>
        \A i, j \in 1..Len(leads) :
            (/\ i # j
             /\ leads[i].vendor_id = leads[j].vendor_id
             /\ ~EmailFalsy(leads[i].contact_email)
             /\ NormalizeEmail(leads[i].contact_email)
                    = NormalizeEmail(leads[j].contact_email))
                => FALSE

(***************************************************************************)
(* Properties of the seniority feature (ScoreSpec)                         *)
(***************************************************************************)
\* the tiers of the seniority keywords
SeniorityTiers ==
    << [tier |-> 3,
        words |-> { <<"c", "e", "o">>, <<"c", "t", "o">>, <<"c", "f", "o">>,
                    <<"p", "r", "e", "s", "i", "d", "e", "n", "t">> }],
       [tier |-> 2,
        words |-> { <<"d", "i", "r", "e", "c", "t", "o", "r">>, <<"v", "p">>,
                    <<"h", "e", "a", "d", " ", "o", "f">> }],
       [tier |-> 1,
        words |-> { <<"m", "a", "n", "a", "g", "e", "r">>,
                    <<"s", "e", "n", "i", "o", "r">>, <<"l", "e", "a", "d">>,
                    <<"p", "r", "i", "n", "c", "i", "p", "a", "l">> }] >>

\* the tier of the most senior keyword the title contains, 0 without one
MostSeniorTier(title) ==
    LET hit == { k \in 1..Len(SeniorityTiers) :
                   \E w \in SeniorityTiers[k].words : Contains(title, w) }
    IN  IF hit = {} THEN 0
        ELSE SeniorityTiers[CHOOSE k \in hit : \A l \in hit : k <= l].tier

\* C30: the seniority feature of a job title is the tier of the most senior
\* listed keyword the title contains, 0 when it contains none; in
\* particular the title 'Director' has seniority 2.
C30_SeniorityTiers ==
    sres.path = "normal" =>
        LET title == LowerOf(slead.job_title)
            seniority == ExtractFeatures(slead)[1]
        IN  /\ seniority = MostSeniorTier(title)
            /\ title = <<"d", "i", "r", "e", "c", "t", "o", "r">>
                  => seniority = 2

====
